---- MODULE Spec2Model ----
(***************************************************************************)
(* Multi-task molecular data pipeline of goli/data/datamodule.py:          *)
(* MultitaskFromSmilesDataModule.prepare_data / setup, the single-file     *)
(* data cache and the per-stage shard cache.                               *)
(*                                                                         *)
(* Conventions: Python positions are 0-based, the positions of this model  *)
(* are 1-based (position p here is Python index p-1).  A table's row index *)
(* (df.index) is 1..len(df), the RangeIndex that _read_table produces with *)
(* ignore_index=True.  Fractions are percentages (split_val = 25 is 0.25). *)
(***************************************************************************)
EXTENDS Integers, Sequences, FiniteSets, TLC

None == "None"

\* ------------------------------------------------------------------ bounds
MaxRows == 2
MaxSeed == 5

\* ------------------------------------------------------------ input domains
TaskOrder == <<"tA", "tB">>
TaskSet == {TaskOrder[i] : i \in DOMAIN TaskOrder}
Smiles == {1, 2, 3}
Seeds == 0..MaxSeed

\* --------------------------------------------------------------- utilities
Range(s) == {s[i] : i \in DOMAIN s}

RECURSIVE SortSet(_)
SortSet(S) ==
    IF S = {} THEN <<>>
    ELSE LET m == CHOOSE x \in S : \A y \in S : x <= y
         IN  <<m>> \o SortSet(S \ {m})

FirstPos(seq, v) ==
    CHOOSE i \in DOMAIN seq : seq[i] = v /\ \A j \in 1..(i - 1) : seq[j] # v

Prefix(seq, n) == [i \in 1..n |-> seq[i]]

Slice(seq, lo, hi) == [i \in 1..(hi - lo) |-> seq[lo + i]]

RECURSIVE Fact(_)
Fact(n) == IF n <= 1 THEN 1 ELSE n * Fact(n - 1)

\* The seeded shuffle of numpy's RandomState: a permutation of arr fixed by
\* the seed (the seed read as a Lehmer code, so that the seeds 0..n!-1 give
\* every permutation of n elements).
RECURSIVE permutation(_, _)
permutation(arr, seed) ==
    IF Len(arr) = 0 THEN <<>>
    ELSE LET f == Fact(Len(arr) - 1)
             i == ((seed \div f) % Len(arr)) + 1
             rest == [j \in 1..(Len(arr) - 1) |-> IF j < i THEN arr[j] ELSE arr[j + 1]]
         IN  <<arr[i]>> \o permutation(rest, seed % f)

\* ------------------------------------------------- canonical molecule ids
\* smiles_to_unique_mol_ids: differently written strings of one molecule
\* share an id (strings 1 and 2 are one molecule, string 3 another).
MolId(s) == (s + 1) \div 2

smiles_to_unique_mol_ids(all_smiles) ==
    [i \in DOMAIN all_smiles |-> MolId(all_smiles[i])]

\* a faulty variant of np.unique, reporting the last occurrence of each id
\* instead of the first (what C1 rules out)
np_unique_last_occurrence(ids) ==
    LET u == SortSet(Range(ids))
    IN  [unique     |-> u,
         unique_idx |-> [k \in DOMAIN u |->
                            CHOOSE i \in DOMAIN ids :
                                ids[i] = u[k] /\ \A j \in DOMAIN ids : j > i => ids[j] # u[k]],
         inv        |-> [i \in DOMAIN ids |-> FirstPos(u, ids[i])]]

\* np.unique(ids, return_index=True, return_inverse=True)
np_unique(ids) ==
    LET u == SortSet(Range(ids))
    IN  [unique     |-> u,
         unique_idx |-> [k \in DOMAIN u |-> FirstPos(ids, u[k])],
         inv        |-> [i \in DOMAIN ids |-> FirstPos(u, ids[i])]]

\* ------------------------------------------------------------ featurizer
\* A feature object: ref is its identity (its position in the list the
\* featurizer returned), failed marks the failure sentinel.
Feature(k, s, fail) == [ref |-> k, smiles |-> s, failed |-> s \in fail]

\* _featurize_molecules(smiles)[0] under a transformer that fails on `fail`
featurize_molecules(smiles_list, fail) ==
    [k \in DOMAIN smiles_list |-> Feature(k, smiles_list[k], fail)]

did_featurization_fail(feat) == feat.failed

\* ------------------------------------------------------------ option values
\* A Python value that may be None: <<>> is None, <<v>> is the value v.
NoneV == <<>>
Some(v) == <<v>>
IsNone(o) == Len(o) = 0
Get(o) == o[1]

\* ------------------------------------------------------------- subsampling
\* _sub_sample_df: the row index (df.index.values) of the sub-sampled frame.
\* df.sample(n, random_state=seed) keeps the first n rows of the seeded
\* shuffle.  sample_size is None or an int.
sub_sample_df(df, sample_size, seed) ==
    LET index == [i \in 1..Len(df) |-> i]
    IN  IF IsNone(sample_size) THEN index
        ELSE LET n == IF Get(sample_size) < Len(df) THEN Get(sample_size) ELSE Len(df)
             IN  Prefix(permutation(index, seed), n)

\* _extract_smiles_labels on the sub-sampled frame (its rows are df[i] for i
\* in index): parallel arrays, sample_idx = df.index.values, and the extras
\* dict with the idx_col column.
extract_smiles_labels(df, index) ==
    [smiles     |-> [p \in DOMAIN index |-> df[index[p]].smiles],
     labels     |-> [p \in DOMAIN index |-> df[index[p]].label],
     sample_idx |-> index,
     extras     |-> [indices |-> [p \in DOMAIN index |-> df[index[p]].idx]]]

\* a faulty variant of the failure filter, removing nothing (what C2 rules
\* out)
filter_nothing(idx_none, arg) == arg

\* ------------------------------------------------------ failure filtering
\* _filter_none_molecules on one list/array argument: the elements whose
\* position is not in idx_none, in order.
filter_none_molecules(idx_none, arg) ==
    IF idx_none = {} THEN arg
    ELSE LET keep == SortSet(DOMAIN arg \ idx_none)
         IN  [k \in DOMAIN keep |-> arg[keep[k]]]

\* the dict branch of _filter_none_molecules (one recursive call per key)
filter_none_extras(idx_none, extras) ==
    [key \in DOMAIN extras |-> filter_none_molecules(idx_none, extras[key])]

\* ------------------------------------------------------------------ splits
\* sklearn's train_test_split(arr, test_size=num/den, random_state=seed):
\* n_test = ceil(test_size * n), the test part is the head of the seeded
\* shuffle; ValueError unless 0 < test_size < 1 and the train part is
\* non-empty.
train_test_split(arr, num, den, seed) ==
    LET n == Len(arr)
        n_test == IF den > 0 THEN (num * n + den - 1) \div den ELSE 0
        perm == permutation(arr, seed)
    IN  IF num <= 0 \/ num >= den \/ n - n_test <= 0
        THEN [raised |-> "ValueError", train |-> <<>>, test |-> <<>>]
        ELSE [raised |-> None,
              test   |-> Prefix(perm, n_test),
              train  |-> Slice(perm, n_test, n)]

\* a faulty variant of the index filter, returning the common values (row
\* indices) instead of their positions in ar1 (what C20 rules out)
intersect1d_values(ar1, values) == SortSet(Range(ar1) \cap values)

\* np.intersect1d(ar1, values, return_indices=True)[1]: for each common
\* value in ascending order, the position of its first occurrence in ar1.
intersect1d_indices(ar1, values) ==
    LET common == SortSet(Range(ar1) \cap values)
    IN  [k \in DOMAIN common |-> FirstPos(ar1, common[k])]

\* a faulty variant of the second split, giving the holdout to the test part
\* when split_test is 0 (what C21 rules out)
holdout_to_test(s1, split_val, split_test, split_seed) ==
    IF s1.raised # None THEN [raised |-> s1.raised, train |-> <<>>, test |-> <<>>]
    ELSE IF split_test > 0
    THEN train_test_split(s1.test, split_test, split_test + split_val, split_seed)
    ELSE [raised |-> None, train |-> <<>>, test |-> s1.test]

\* the second train_test_split of the random branch: s1 is the outcome of
\* the first one, whose test part is divided into validation and test
random_split_val_test(s1, split_val, split_test, split_seed) ==
    IF s1.raised # None THEN [raised |-> s1.raised, train |-> <<>>, test |-> <<>>]
    ELSE IF split_test > 0
    THEN train_test_split(s1.test, split_test, split_test + split_val, split_seed)
    ELSE [raised |-> None, train |-> s1.test, test |-> <<>>]

\* the three index sets of the random branch, from its two splits
random_split_sets(s1, s2) ==
    IF s2.raised # None
    THEN [raised |-> s2.raised, train |-> {}, val |-> {}, test |-> {}]
    ELSE [raised |-> None,
          train  |-> Range(s1.train),
          val    |-> Range(s2.train),
          test   |-> Range(s2.test)]

\* the first train_test_split of the random branch
random_split_train(sample_idx, split_val, split_test, split_seed) ==
    IF split_test + split_val > 0
    THEN train_test_split(sample_idx, split_val + split_test, 100, split_seed)
    ELSE [raised |-> None, train |-> sample_idx, test |-> <<>>]

\* the random branch of _get_split_indices, before the final filtering
random_split(sample_idx, split_val, split_test, split_seed) ==
    LET s1 == random_split_train(sample_idx, split_val, split_test, split_seed)
    IN  random_split_sets(s1, random_split_val_test(s1, split_val, split_test, split_seed))

\* the file branch of _get_split_indices: the three lists of the file
file_split(splits) ==
    [raised |-> None, train |-> splits.train, val |-> splits.val, test |-> splits.test]

\* the end of _get_split_indices: each list becomes the positions, in
\* sample_idx, of those of its values that survive in sample_idx
filter_split(sample_idx, s) ==
    IF s.raised # None
    THEN [raised |-> s.raised, train |-> <<>>, val |-> <<>>, test |-> <<>>]
    ELSE [raised |-> None,
          train  |-> intersect1d_indices(sample_idx, s.train),
          val    |-> intersect1d_indices(sample_idx, s.val),
          test   |-> intersect1d_indices(sample_idx, s.test)]

\* _get_split_indices
get_split_indices(sample_idx, split_val, split_test, split_seed, splits_path) ==
    filter_split(sample_idx,
                 IF IsNone(splits_path)
                 THEN random_split(sample_idx, split_val, split_test, split_seed)
                 ELSE file_split(Get(splits_path)))

\* ------------------------------------------- the pipeline of prepare_data
RECURSIVE ConcatTasks(_, _)
\* the lists f[task] of the first k tasks, concatenated in dict order
ConcatTasks(f, k) ==
    IF k = 0 THEN <<>> ELSE ConcatTasks(f, k - 1) \o f[TaskOrder[k]]

TaskPos(task) == CHOOSE k \in DOMAIN TaskOrder : TaskOrder[k] = task

\* task_dataset_args after the sub-sampling and extraction loop
task_dataset_args(args) ==
    [task \in TaskSet |->
        extract_smiles_labels(
            args[task].df,
            sub_sample_df(args[task].df, args[task].sample_size, args[task].seed))]

\* idx_per_task[task] = (lo, hi): the task's rows are all_smiles[lo:hi]
idx_per_task(tda, task) ==
    <<Len(ConcatTasks([t \in TaskSet |-> tda[t].smiles], TaskPos(task) - 1)),
      Len(ConcatTasks([t \in TaskSet |-> tda[t].smiles], TaskPos(task)))>>

\* smiles_to_featurize: the first occurrence of every unique molecule id
smiles_to_featurize(all_smiles, unique_idx) ==
    [k \in DOMAIN unique_idx |-> all_smiles[unique_idx[k]]]

\* all_features: one feature per row of all_smiles, through the inverse map
all_features_of(features, inv) == [i \in DOMAIN inv |-> features[inv[i]]]

\* the failure filter of one task: a is task_dataset_args[task], feats the
\* task's features and this_unique_ids its slice of all_mol_ids
filtered_task(a, feats, this_unique_ids) ==
    LET idx_none == {p \in DOMAIN feats : did_featurization_fail(feats[p])}
    IN  [features   |-> filter_none_molecules(idx_none, feats),
         smiles     |-> filter_none_molecules(idx_none, a.smiles),
         labels     |-> filter_none_molecules(idx_none, a.labels),
         sample_idx |-> filter_none_molecules(idx_none, a.sample_idx),
         extras     |-> filter_none_extras(idx_none, a.extras),
         unique_ids |-> filter_none_molecules(idx_none, this_unique_ids)]

SingleTaskDataset(features, labels, smiles, unique_ids, indices) ==
    [features |-> features, labels |-> labels, smiles |-> smiles,
     unique_ids |-> unique_ids, indices |-> indices]

\* the tasks whose split was stored before the split loop ended or raised
split_done(splits) ==
    {task \in TaskSet : \A k \in 1..TaskPos(task) : splits[TaskOrder[k]].raised = None}

\* the exception of the split loop: that of the first task whose split raises
split_raised(splits) ==
    IF \A task \in TaskSet : splits[task].raised = None THEN None
    ELSE splits[TaskOrder[CHOOSE k \in DOMAIN TaskOrder :
                    /\ splits[TaskOrder[k]].raised # None
                    /\ \A j \in 1..(k - 1) : splits[TaskOrder[j]].raised = None]].raised

\* all_smiles: the SMILES of every task, concatenated in dict order
all_smiles_of(tda) == ConcatTasks([task \in TaskSet |-> tda[task].smiles], Len(TaskOrder))

\* the failure filter of every task, each on its slice of the global arrays
filtered_tasks(tda, all_features, all_mol_ids) ==
    [task \in TaskSet |->
        filtered_task(tda[task],
                      Slice(all_features, idx_per_task(tda, task)[1], idx_per_task(tda, task)[2]),
                      Slice(all_mol_ids, idx_per_task(tda, task)[1], idx_per_task(tda, task)[2]))]

\* self.single_task_datasets
make_single_task_datasets(filtered) ==
    [task \in TaskSet |->
        SingleTaskDataset(filtered[task].features, filtered[task].labels,
                          filtered[task].smiles, filtered[task].unique_ids,
                          filtered[task].extras.indices)]

\* the outcome of _get_split_indices for every task
task_splits(args, filtered) ==
    [task \in TaskSet |->
        get_split_indices(filtered[task].sample_idx,
                          args[task].split_val, args[task].split_test,
                          args[task].seed, args[task].splits_path)]

\* one of the three index dicts: the tasks stored before the loop ended
split_indices_of(splits, part) == [task \in split_done(splits) |-> splits[task][part]]

\* torch.utils.data.Subset(dataset, indices): a view
Subset(dataset, indices) == [dataset |-> dataset, indices |-> indices]

\* get_subsets_of_datasets, one stage's dict
get_subsets_of_datasets(datasets, task_indices) ==
    [task \in DOMAIN task_indices |-> Subset(datasets[task], task_indices[task])]

\* ------------------------------------------------------- MultitaskDataset
\* the rows a stage subset of one task contributes
subset_rows(sub) ==
    [k \in DOMAIN sub.indices |->
        [mol_id   |-> sub.dataset.unique_ids[sub.indices[k]],
         label    |-> sub.dataset.labels[sub.indices[k]],
         features |-> sub.dataset.features[sub.indices[k]]]]

\* MultitaskDataset.merge: one item per unique molecule id of the stage, in
\* ascending id order, holding the shared feature and the labels of the
\* tasks that include the molecule (absent tasks are missing keys).
merge(subsets) ==
    LET rows(t) == subset_rows(subsets[t])
        has(t, m) == \E k \in DOMAIN rows(t) : rows(t)[k].mol_id = m
        ids == UNION {{rows(t)[k].mol_id : k \in DOMAIN rows(t)} : t \in DOMAIN subsets}
        u == SortSet(ids)
        last(t, m) == CHOOSE k \in DOMAIN rows(t) :
                         /\ rows(t)[k].mol_id = m
                         /\ \A j \in DOMAIN rows(t) : j > k => rows(t)[j].mol_id # m
        first_task(m) == TaskOrder[CHOOSE k \in DOMAIN TaskOrder :
                             /\ TaskOrder[k] \in DOMAIN subsets
                             /\ has(TaskOrder[k], m)
                             /\ \A j \in 1..(k - 1) :
                                   ~(TaskOrder[j] \in DOMAIN subsets /\ has(TaskOrder[j], m))]
    IN  [i \in DOMAIN u |->
            [features |-> LET t == first_task(u[i])
                          IN  rows(t)[CHOOSE k \in DOMAIN rows(t) :
                                         /\ rows(t)[k].mol_id = u[i]
                                         /\ \A j \in 1..(k - 1) : rows(t)[j].mol_id # u[i]].features,
             labels   |-> [t \in {t \in DOMAIN subsets : has(t, u[i])} |->
                              [value |-> rows(t)[last(t, u[i])].label, normalized |-> 0]]]]

\* MultitaskDataset(subsets, data_path=..., load_from_file=...): populated
\* from the shard files when load_from_file, merged from the subsets otherwise
MultitaskDataset(subsets, files, load_from_file) ==
    [load_from_file |-> load_from_file,
     items          |-> IF load_from_file THEN files ELSE merge(subsets)]

\* MultitaskDataset.labels_size: task -> label width (one label column here)
labels_size(ds) ==
    [t \in UNION {DOMAIN ds.items[i].labels : i \in DOMAIN ds.items} |-> 1]

\* dict.update
dict_update(d, e) ==
    [k \in DOMAIN d \cup DOMAIN e |-> IF k \in DOMAIN e THEN e[k] ELSE d[k]]

\* ================================================= _extract_smiles_labels
\* Column names are strings of characters (tuples of one-character strings).
\* A cell is <<"str", k>> (the k-th text value) or <<"num", k>> (the number
\* k); a frame is [columns, index, data], data[c] being the cells of column
\* columns[c].
NaN == <<"nan", 0>>

ToLower == ("S" :> "s") @@ ("M" :> "m") @@ ("I" :> "i") @@ ("L" :> "l") @@ ("E" :> "e")

\* str.lower
lower(s) == [i \in DOMAIN s |-> IF s[i] \in DOMAIN ToLower THEN ToLower[s[i]] ELSE s[i]]

\* sub in s
contains(sub, s) ==
    \E i \in 0..(Len(s) - Len(sub)) : SubSeq(s, i + 1, i + Len(sub)) = sub

\* str.startswith, str.endswith
startswith(s, prefix) == Len(prefix) <= Len(s) /\ SubSeq(s, 1, Len(prefix)) = prefix

endswith(s, suffix) ==
    Len(suffix) <= Len(s) /\ SubSeq(s, Len(s) - Len(suffix) + 1, Len(s)) = suffix

\* col in df.columns, df[col].values
has_column(df, col) == \E c \in DOMAIN df.columns : df.columns[c] = col

column(df, col) == df.data[FirstPos(df.columns, col)]

\* pd.to_numeric(..., errors="coerce") on one cell
to_numeric(cell) == IF cell[1] = "num" THEN cell ELSE NaN

\* _parse_label_cols with a frame given (cols = list(df.columns)).  label_cols
\* is None, a string [kind |-> "str", v |-> <<the string>>] or a list of
\* names [kind |-> "list", v |-> the list]; with smiles_col None the
\* comparison col != smiles_col holds for every column.
_parse_label_cols(cols, label_cols, smiles_col) ==
    IF IsNone(label_cols)
    THEN SelectSeq(cols, LAMBDA col : Some(col) # smiles_col)
    ELSE IF Get(label_cols).kind = "str"
    THEN IF Head(Get(label_cols).v[1]) = "*"
         THEN SelectSeq(cols, LAMBDA col : endswith(col, Tail(Get(label_cols).v[1])))
         ELSE IF Get(label_cols).v[1][Len(Get(label_cols).v[1])] = "*"
         THEN SelectSeq(cols, LAMBDA col :
                  startswith(col, SubSeq(Get(label_cols).v[1], 1,
                                         Len(Get(label_cols).v[1]) - 1)))
         ELSE Get(label_cols).v
    ELSE Get(label_cols).v

\* the text searched for in the column names
smile == <<"s", "m", "i", "l", "e">>

\* a faulty variant of the column search, comparing case-sensitively (what
\* C18 rules out)
smiles_col_all_case_sensitive(columns) ==
    SelectSeq(columns, LAMBDA col : contains(smile, col))

\* smiles_col_all: the columns whose lower-cased name contains "smile"
smiles_col_all(columns) ==
    SelectSeq(columns, LAMBDA col : contains(smile, lower(col)))

\* the SMILES column of _extract_smiles_labels: the one given, else the
\* single match of the search; ValueError on no match and on several
detect_smiles_col(columns, smiles_col) ==
    IF ~IsNone(smiles_col) THEN [raised |-> None, smiles_col |-> smiles_col]
    ELSE IF Len(smiles_col_all(columns)) = 0
    THEN [raised |-> "ValueError", smiles_col |-> NoneV]
    ELSE IF Len(smiles_col_all(columns)) > 1
    THEN [raised |-> "ValueError", smiles_col |-> NoneV]
    ELSE [raised |-> None, smiles_col |-> Some(smiles_col_all(columns)[1])]

\* label_cols of _extract_smiles_labels: df.columns.drop(smiles_col) when
\* None (label_cols is None or a list of names here)
extract_label_cols(columns, label_cols, smiles_col) ==
    IF IsNone(label_cols) THEN SelectSeq(columns, LAMBDA col : col # smiles_col)
    ELSE Get(label_cols)

\* numpy's a[mask] = v for a boolean mask of a's shape: TypeError ("requires
\* a 0 or 1-dimensional input") when v has more than one dimension
boolean_assign_raised(value_ndim) == IF value_ndim > 1 THEN "TypeError" ELSE None

\* the exception of the weights block of _extract_smiles_labels; binary is
\* np.all((labels == 0) | (labels == 1)).  With weights_col set the block
\* only reads the column.  ratio_pos_neg is computed with keepdims=1, so it
\* has two dimensions and the assignment weights[labels == 0] = ratio_pos_neg
\* raises for both weights types; the statements after it are not reached.
weights_raised(binary, weights_col, weights_type) ==
    IF ~IsNone(weights_col) THEN None
    ELSE IF IsNone(weights_type) THEN None
    ELSE IF ~binary THEN "ValueError"
    ELSE IF Get(weights_type) \in {"sample_label_balanced", "sample_balanced"}
    THEN boolean_assign_raised(2)
    ELSE "ValueError"

\* the label matrix: one row per row of the frame, one column per label column
label_matrix(df, label_cols) ==
    [r \in DOMAIN df.index |->
        [c \in DOMAIN label_cols |-> to_numeric(column(df, label_cols[c])[r])]]

is_binary(labels) ==
    \A r \in DOMAIN labels : \A c \in DOMAIN labels[r] :
        labels[r][c] \in {<<"num", 0>>, <<"num", 1>>}

\* the result of _extract_smiles_labels that raises
extract_failed(raised, smiles_col, label_cols) ==
    [raised |-> raised, smiles_col |-> smiles_col, label_cols |-> label_cols,
     smiles |-> NoneV, labels |-> NoneV, sample_idx |-> NoneV,
     indices |-> NoneV, weights |-> NoneV]

\* _extract_smiles_labels after the SMILES column is known
extract_columns(df, smiles_col, label_cols, idx_col, weights_col, weights_type) ==
    IF ~has_column(df, smiles_col) THEN extract_failed("KeyError", Some(smiles_col), NoneV)
    ELSE IF \E c \in DOMAIN label_cols : ~has_column(df, label_cols[c])
    THEN extract_failed("KeyError", Some(smiles_col), Some(label_cols))
    ELSE IF ~IsNone(idx_col) /\ ~has_column(df, Get(idx_col))
    THEN extract_failed("KeyError", Some(smiles_col), Some(label_cols))
    ELSE IF ~IsNone(weights_col) /\ ~has_column(df, Get(weights_col))
    THEN extract_failed("KeyError", Some(smiles_col), Some(label_cols))
    ELSE IF weights_raised(is_binary(label_matrix(df, label_cols)),
                           weights_col, weights_type) # None
    THEN extract_failed(weights_raised(is_binary(label_matrix(df, label_cols)),
                                       weights_col, weights_type),
                        Some(smiles_col), Some(label_cols))
    ELSE [raised     |-> None,
          smiles_col |-> Some(smiles_col),
          label_cols |-> Some(label_cols),
          smiles     |-> Some(column(df, smiles_col)),
          labels     |-> Some(label_matrix(df, label_cols)),
          sample_idx |-> Some(df.index),
          indices    |-> IF IsNone(idx_col) THEN NoneV
                         ELSE Some(column(df, Get(idx_col))),
          weights    |-> IF IsNone(weights_col) THEN NoneV
                         ELSE Some(column(df, Get(weights_col)))]

\* _extract_smiles_labels
_extract_smiles_labels(df, smiles_col, label_cols, idx_col, weights_col, weights_type) ==
    IF detect_smiles_col(df.columns, smiles_col).raised # None
    THEN extract_failed(detect_smiles_col(df.columns, smiles_col).raised, NoneV, NoneV)
    ELSE extract_columns(df,
                         Get(detect_smiles_col(df.columns, smiles_col).smiles_col),
                         extract_label_cols(df.columns, label_cols,
                             Get(detect_smiles_col(df.columns, smiles_col).smiles_col)),
                         idx_col, weights_col, weights_type)

\* prepare_data on one task with a frame given: _parse_label_cols, the result
\* written back to args.label_cols, then _extract_smiles_labels with it
extract_task(a) ==
    _extract_smiles_labels(a.df, a.smiles_col,
                           Some(_parse_label_cols(a.df.columns, a.label_cols, a.smiles_col)),
                           a.idx_col, a.weights_col, a.weights_type)

\* the exception of _extract_smiles_labels on the sub-sampled frame of a task
\* of the life-cycle model (its columns smiles, label and idx exist)
extract_raised(a) ==
    weights_raised(\A p \in DOMAIN sub_sample_df(a.df, a.sample_size, a.seed) :
                       a.df[sub_sample_df(a.df, a.sample_size, a.seed)[p]].label \in {0, 1},
                   a.weights_col, a.weights_type)

\* the exception of the extraction loop: that of the first task whose
\* extraction raises
extraction_raised(args) ==
    IF \A task \in DOMAIN args : extract_raised(args[task]) = None THEN None
    ELSE extract_raised(args[TaskOrder[CHOOSE k \in DOMAIN TaskOrder :
                            /\ extract_raised(args[TaskOrder[k]]) # None
                            /\ \A j \in 1..(k - 1) :
                                  extract_raised(args[TaskOrder[j]]) = None]])

\* =================================================================== state
VARIABLES
    \* constructor arguments (the configuration)
    task_specific_args,          \* task -> [df, sample_size, split_val, split_test, seed, splits_path]
    cache_data_path,             \* None or the cache directory
    processed_graph_data_path,   \* None or the shard directory
    smiles_transformer,          \* the strings the featurization fails on
    collate_fn,                  \* "default" (the functools.partial) or "custom"
    \* the DataModule object
    _data_is_prepared,
    single_task_datasets,
    task_train_indices, task_val_indices, task_test_indices,
    train_singletask_datasets, val_singletask_datasets, test_singletask_datasets,
    train_ds, val_ds, test_ds,
    task_norms,
    labels_size_dict,            \* collate_fn.keywords["labels_size_dict"]
    \* the file system
    cache_file,                  \* {cache_data_path}/{data_hash}.datacache
    norms_file,                  \* {processed_graph_data_path}/{data_hash}/task_norms.pkl
    shards,                      \* stage -> {processed_graph_data_path}/{stage}_{data_hash}
    \* what the last call did, and the object state at the last cache save
    call,
    saved_state,
    \* a call of the constructor or of a static helper, outside the life cycle
    \* of the object above: its arguments and, once it has run, its outcome
    helper_call

config == <<task_specific_args, cache_data_path, processed_graph_data_path,
            smiles_transformer, collate_fn>>
prepared_fields == <<single_task_datasets, task_train_indices, task_val_indices,
                     task_test_indices, train_singletask_datasets,
                     val_singletask_datasets, test_singletask_datasets>>
stage_fields == <<train_ds, val_ds, test_ds, labels_size_dict>>
disk == <<cache_file, norms_file, shards>>
vars == <<config, _data_is_prepared, prepared_fields, stage_fields, task_norms,
          disk, call, saved_state, helper_call>>

Stages == {"train", "val", "test"}

\* the record of one call
Call(op, stage, raised) ==
    [op |-> op, stage |-> stage, raised |-> raised, skipped |-> FALSE,
     featurized |-> NoneV, cache_read |-> FALSE, cache_hit |-> FALSE,
     cache_write |-> FALSE, loaded |-> {}, saved |-> {}]

\* ------------------------------------------------------------------ inputs
\* a table of n rows: the idx column holds the row's index, the label column
\* alternates
Table(sm) ==
    [i \in DOMAIN sm |-> [smiles |-> sm[i], label |-> i % 2, idx |-> i]]

TaskArgs(df, sample_size, split_val, split_test, seed, splits_path) ==
    [df |-> df, sample_size |-> sample_size, split_val |-> split_val,
     split_test |-> split_test, seed |-> seed, splits_path |-> splits_path,
     weights_col |-> NoneV, weights_type |-> NoneV]

\* __init__: the state of a freshly constructed DataModule
NewObject ==
    /\ _data_is_prepared = FALSE
    /\ single_task_datasets = NoneV
    /\ task_train_indices = NoneV
    /\ task_val_indices = NoneV
    /\ task_test_indices = NoneV
    /\ train_singletask_datasets = NoneV
    /\ val_singletask_datasets = NoneV
    /\ test_singletask_datasets = NoneV
    /\ train_ds = NoneV
    /\ val_ds = NoneV
    /\ test_ds = NoneV
    /\ task_norms = <<>>
    /\ labels_size_dict = NoneV

\* a helper call before it runs; op "none": no helper call is examined
HelperCall(op, args) == [op |-> op, args |-> args, out |-> NoneV]

InitWith(ArgsSet, FailSets, CachePaths, GraphPaths, CollateFns) ==
    /\ task_specific_args \in ArgsSet
    /\ smiles_transformer \in FailSets
    /\ cache_data_path \in CachePaths
    /\ processed_graph_data_path \in GraphPaths
    /\ collate_fn \in CollateFns
    /\ NewObject
    /\ cache_file = NoneV
    /\ norms_file = NoneV
    /\ shards = [st \in Stages |-> NoneV]
    /\ call = Call("init", None, None)
    /\ saved_state = NoneV
    /\ helper_call = HelperCall("none", <<>>)

\* ============================================================ prepare_data
\* a faulty variant of the early return, never taken (what C7 rules out)
never_skip == FALSE

\* the early return of prepare_data
prepare_skip == _data_is_prepared

\* a faulty variant of save_params, storing the val and test indices under
\* each other's key (what C6 rules out)
save_params_swapped(datasets, train_indices, val_indices, test_indices) ==
    [single_task_datasets |-> datasets,
     task_train_indices   |-> train_indices,
     task_val_indices     |-> test_indices,
     task_test_indices    |-> val_indices]

\* save_params of save_data_to_cache
save_params(datasets, train_indices, val_indices, test_indices) ==
    [single_task_datasets |-> datasets,
     task_train_indices   |-> train_indices,
     task_val_indices     |-> val_indices,
     task_test_indices    |-> test_indices]

\* fs.exists(full_cache_data_path), with a cache path configured
cache_file_exists == ~IsNone(cache_data_path) /\ ~IsNone(cache_file)

\* a faulty variant of load_data_from_cache without its except clause: the
\* deserialization error of an unreadable file propagates (what C5 rules out)
load_raises_when_unreadable ==
    IF cache_file_exists /\ ~Get(cache_file).readable THEN "UnpicklingError" ELSE None

\* the exception that leaves load_data_from_cache: none, the except clause
\* turns a failed load into a warning
load_raised == None

\* a faulty variant of load_data_from_cache, never restoring from the file
\* (what C29 rules out)
cache_never_loaded == FALSE

\* the value load_data_from_cache returns
load_data_from_cache == cache_file_exists /\ Get(cache_file).readable

\* get_label_statistics(processed_graph_data_path, data_hash) as prepare_data
\* calls it after a cache hit (dataset=None, train=False): os.path.join on a
\* None path, then torch.load of task_norms.pkl
label_statistics_on_hit ==
    IF IsNone(processed_graph_data_path) THEN "TypeError"
    ELSE IF IsNone(norms_file) THEN "FileNotFoundError"
    ELSE None

\* the object state that prepare_data builds and the cache stores
ObjectState ==
    [single_task_datasets      |-> single_task_datasets,
     task_train_indices        |-> task_train_indices,
     task_val_indices          |-> task_val_indices,
     task_test_indices         |-> task_test_indices,
     train_singletask_datasets |-> train_singletask_datasets,
     val_singletask_datasets   |-> val_singletask_datasets,
     test_singletask_datasets  |-> test_singletask_datasets]

PrepareSkip ==
    /\ call' = [Call("prepare_data", None, None) EXCEPT !.skipped = TRUE]
    /\ UNCHANGED <<config, helper_call, _data_is_prepared, prepared_fields, stage_fields,
                   task_norms, disk, saved_state>>

PrepareLoadRaised ==
    /\ call' = [Call("prepare_data", None, load_raised) EXCEPT !.cache_read = TRUE]
    /\ UNCHANGED <<config, helper_call, _data_is_prepared, prepared_fields, stage_fields,
                   task_norms, disk, saved_state>>

PrepareFromCache ==
    LET params == Get(cache_file).save_params
        raised == label_statistics_on_hit
    IN  /\ single_task_datasets' = Some(params.single_task_datasets)
        /\ task_train_indices' = Some(params.task_train_indices)
        /\ task_val_indices' = Some(params.task_val_indices)
        /\ task_test_indices' = Some(params.task_test_indices)
        /\ train_singletask_datasets' =
              Some(get_subsets_of_datasets(params.single_task_datasets, params.task_train_indices))
        /\ val_singletask_datasets' =
              Some(get_subsets_of_datasets(params.single_task_datasets, params.task_val_indices))
        /\ test_singletask_datasets' =
              Some(get_subsets_of_datasets(params.single_task_datasets, params.task_test_indices))
        /\ task_norms' = IF raised = None THEN Get(norms_file) ELSE task_norms
        /\ _data_is_prepared' = (raised = None)
        /\ call' = [Call("prepare_data", None, raised)
                       EXCEPT !.cache_read = TRUE, !.cache_hit = TRUE]
        /\ UNCHANGED <<config, helper_call, stage_fields, disk, saved_state>>

prepare_outcome(datasets, splits, to_featurize) ==
    /\ task_norms' = [t \in TaskSet |-> NoneV]
    /\ single_task_datasets' = Some(datasets)
    /\ task_train_indices' = Some(split_indices_of(splits, "train"))
    /\ task_val_indices' = Some(split_indices_of(splits, "val"))
    /\ task_test_indices' = Some(split_indices_of(splits, "test"))
    /\ IF split_raised(splits) = None
       THEN /\ train_singletask_datasets' =
                   Some(get_subsets_of_datasets(datasets, split_indices_of(splits, "train")))
            /\ val_singletask_datasets' =
                   Some(get_subsets_of_datasets(datasets, split_indices_of(splits, "val")))
            /\ test_singletask_datasets' =
                   Some(get_subsets_of_datasets(datasets, split_indices_of(splits, "test")))
            /\ IF ~IsNone(cache_data_path)
               THEN /\ cache_file' =
                           Some([readable    |-> TRUE,
                                 save_params |-> save_params(datasets,
                                                             split_indices_of(splits, "train"),
                                                             split_indices_of(splits, "val"),
                                                             split_indices_of(splits, "test"))])
                    /\ saved_state' = Some(ObjectState')
               ELSE UNCHANGED <<cache_file, saved_state>>
       ELSE UNCHANGED <<train_singletask_datasets, val_singletask_datasets,
                        test_singletask_datasets, cache_file, saved_state>>
    /\ _data_is_prepared' = (split_raised(splits) = None)
    /\ call' = [Call("prepare_data", None, split_raised(splits))
                   EXCEPT !.featurized = Some(to_featurize),
                          !.cache_read = cache_file_exists,
                          !.cache_write = split_raised(splits) = None /\ ~IsNone(cache_data_path)]
    /\ UNCHANGED <<config, helper_call, stage_fields, norms_file, shards>>

\* prepare_data without a usable cache when the extraction loop raises: the
\* first loop has stored every task's label normalization, nothing else is
\* set and no molecule is featurized
PrepareExtractRaised ==
    /\ task_norms' = [t \in TaskSet |-> NoneV]
    /\ call' = [Call("prepare_data", None, extraction_raised(task_specific_args))
                   EXCEPT !.cache_read = cache_file_exists]
    /\ UNCHANGED <<config, helper_call, _data_is_prepared, prepared_fields, stage_fields,
                   disk, saved_state>>

\* prepare_data without a usable cache, statement by statement
PrepareFromScratch ==
    \E tda \in {task_dataset_args(task_specific_args)} :
    \E all_smiles \in {all_smiles_of(tda)} :
    \E all_mol_ids \in {smiles_to_unique_mol_ids(all_smiles)} :
    \E uq \in {np_unique(all_mol_ids)} :
    \E to_featurize \in {smiles_to_featurize(all_smiles, uq.unique_idx)} :
    \E features \in {featurize_molecules(to_featurize, smiles_transformer)} :
    \E all_features \in {all_features_of(features, uq.inv)} :
    \E filtered \in {filtered_tasks(tda, all_features, all_mol_ids)} :
    \E splits \in {task_splits(task_specific_args, filtered)} :
        prepare_outcome(make_single_task_datasets(filtered), splits, to_featurize)

\* MultitaskFromSmilesDataModule.prepare_data
PrepareData ==
    IF prepare_skip THEN PrepareSkip
    ELSE IF load_raised # None /\ cache_file_exists THEN PrepareLoadRaised
    ELSE IF load_data_from_cache THEN PrepareFromCache
    ELSE IF extraction_raised(task_specific_args) # None THEN PrepareExtractRaised
    ELSE PrepareFromScratch

\* ------------------------------------------------------------- environment
\* a new process constructs the DataModule again, with the same arguments
NewModule ==
    /\ call.op # "init"
    /\ _data_is_prepared' = FALSE
    /\ single_task_datasets' = NoneV
    /\ task_train_indices' = NoneV
    /\ task_val_indices' = NoneV
    /\ task_test_indices' = NoneV
    /\ train_singletask_datasets' = NoneV
    /\ val_singletask_datasets' = NoneV
    /\ test_singletask_datasets' = NoneV
    /\ train_ds' = NoneV
    /\ val_ds' = NoneV
    /\ test_ds' = NoneV
    /\ task_norms' = <<>>
    /\ labels_size_dict' = NoneV
    /\ call' = Call("init", None, None)
    /\ UNCHANGED <<config, helper_call, disk, saved_state>>

\* the cache file is damaged on disk (a truncated or overwritten file)
CorruptCache ==
    /\ cache_file_exists
    /\ Get(cache_file).readable
    /\ cache_file' = Some([Get(cache_file) EXCEPT !.readable = FALSE])
    /\ UNCHANGED <<config, helper_call, _data_is_prepared, prepared_fields, stage_fields,
                   task_norms, norms_file, shards, call, saved_state>>

\* =================================================================== setup
BucketSize == 1000

\* save_featurized_data / process_func: the bucket directories and one file
\* per item, {"graph_with_features": ..., "labels": ...}
shard_dir(items) ==
    [buckets |-> {(i - 1) \div BucketSize : i \in DOMAIN items},
     files   |-> [i \in DOMAIN items |->
                     [graph_with_features |-> items[i].features,
                      labels              |-> items[i].labels]]]

\* save_featurized_data(dataset, path) on the directory state dir: nothing
\* is created for an empty dataset
save_featurized_data(items, dir) ==
    IF Len(items) = 0 THEN dir ELSE Some(shard_dir(items))

\* get_folder_size: the summed sizes of the directory's entries, which are
\* the bucket directories (a directory's own size is not zero)
get_folder_size(dir) == Cardinality(dir.buckets)

\* a faulty variant of the shard-cache test, never finding the cache (what C10
\* rules out)
no_shard_cache(dir) == FALSE

\* osp.exists(path) and get_folder_size(path) > 0
shard_cache_exists(dir) == ~IsNone(dir) /\ get_folder_size(Get(dir)) > 0

\* the items a MultitaskDataset reads back from the shard files
load_shards(dir) ==
    [i \in DOMAIN dir.files |->
        [features |-> dir.files[i].graph_with_features,
         labels   |-> dir.files[i].labels]]

\* dataset[0]["labels"].keys(): the tasks of the first item, in dict order
label_tasks(items) ==
    IF Len(items) = 0 THEN <<>>
    ELSE SelectSeq(TaskOrder, LAMBDA t : t \in DOMAIN items[1].labels)

\* every datum has a label of the task (datum["labels"][task] does not raise)
task_complete(items, task) == \A i \in DOMAIN items : task \in DOMAIN items[i].labels

\* get_label_statistics(path, hash, dataset, train=True) on the new train_ds
\* items; norms is self.task_norms and file the task_norms.pkl state
get_label_statistics(items, norms, file) ==
    LET tasks == label_tasks(items)
        ok(k) == \A j \in 1..k : task_complete(items, tasks[j])
        computed == {tasks[k] : k \in {k \in DOMAIN tasks : ok(k)}}
        new_norms == [t \in DOMAIN norms |->
                         IF t \in computed
                         THEN Some([i \in DOMAIN items |-> items[i].labels[t].value])
                         ELSE norms[t]]
    IN  IF DOMAIN norms # {} /\ IsNone(file)
        THEN IF Len(items) = 0
             THEN [raised |-> "IndexError", task_norms |-> norms, file |-> file]
             ELSE IF \E k \in DOMAIN tasks : ~ok(k)
             THEN [raised |-> "KeyError", task_norms |-> new_norms, file |-> file]
             ELSE [raised |-> None, task_norms |-> new_norms, file |-> Some(new_norms)]
        ELSE IF IsNone(file)
             THEN [raised |-> "FileNotFoundError", task_norms |-> norms, file |-> file]
             ELSE [raised |-> None, task_norms |-> Get(file), file |-> file]

\* normalize_label(dataset): every label visited before the first missing
\* key is replaced by its normalized value
normalize_label(items) ==
    LET tasks == label_tasks(items)
        bad(k, i) == tasks[k] \notin DOMAIN items[i].labels
        done(k, i) == \A k2 \in DOMAIN tasks : \A i2 \in DOMAIN items :
                         (k2 < k \/ (k2 = k /\ i2 <= i)) => ~bad(k2, i2)
    IN  [raised |-> IF Len(items) = 0 THEN "IndexError"
                    ELSE IF \E k \in DOMAIN tasks : \E i \in DOMAIN items : bad(k, i)
                    THEN "KeyError" ELSE None,
         items  |-> [i \in DOMAIN items |->
                       [items[i] EXCEPT !.labels =
                           [t \in DOMAIN items[i].labels |->
                               IF \E k \in DOMAIN tasks : tasks[k] = t /\ done(k, i)
                               THEN [items[i].labels[t] EXCEPT !.normalized = @ + 1]
                               ELSE items[i].labels[t]]]]]

\* a faulty variant of the stage test, running the block for every stage
\* argument (what C8 rules out)
every_stage(stage) == TRUE

\* the stage argument selects the blocks of setup
fit_block(stage) == stage = "fit" \/ stage = None
test_block(stage) == stage = "test" \/ stage = None

\* the exception of the last two lines of setup: a callable that is not a
\* functools.partial has no keywords attribute
collate_raised == IF collate_fn = "custom" THEN "AttributeError" ELSE None

\* MultitaskFromSmilesDataModule.setup(stage)
Setup(stage) ==
    /\ _data_is_prepared
    /\ LET fit == fit_block(stage)
           tst == test_block(stage)
           graph == ~IsNone(processed_graph_data_path)
           lff(st) == graph /\ shard_cache_exists(shards[st])
           files(st) == IF lff(st) THEN load_shards(Get(shards[st])) ELSE <<>>
           train0 == MultitaskDataset(Get(train_singletask_datasets), files("train"), lff("train"))
           val0 == MultitaskDataset(Get(val_singletask_datasets), files("val"), lff("val"))
           test0 == MultitaskDataset(Get(test_singletask_datasets), files("test"), lff("test"))
           do_stats == fit /\ graph /\ ~lff("train")
           stats == get_label_statistics(train0.items, task_norms, norms_file)
           norm == normalize_label(train0.items)
           fit_raised == IF ~do_stats THEN None
                         ELSE IF stats.raised # None THEN stats.raised
                         ELSE norm.raised
           train1 == IF do_stats /\ stats.raised = None
                     THEN [train0 EXCEPT !.items = norm.items] ELSE train0
           fit_done == fit /\ fit_raised = None
           test_done == tst /\ fit_raised = None
           save_train == fit_done /\ do_stats
           save_val == fit_done /\ graph /\ ~lff("val")
           save_test == test_done /\ graph /\ ~lff("test")
           size1 == IF fit_done
                    THEN dict_update(dict_update(<<>>, labels_size(train1)), labels_size(val0))
                    ELSE <<>>
           size2 == IF test_done THEN dict_update(size1, labels_size(test0)) ELSE size1
           raised == IF fit_raised # None THEN fit_raised ELSE collate_raised
       IN  /\ train_ds' = IF fit THEN Some(train1) ELSE train_ds
           /\ val_ds' = IF fit THEN Some(val0) ELSE val_ds
           /\ test_ds' = IF test_done THEN Some(test0) ELSE test_ds
           /\ task_norms' = IF do_stats THEN stats.task_norms ELSE task_norms
           /\ norms_file' = IF do_stats THEN stats.file ELSE norms_file
           /\ shards' = [st \in Stages |->
                 IF \/ st = "train" /\ save_train
                    \/ st = "val" /\ save_val
                    \/ st = "test" /\ save_test
                 THEN save_featurized_data(
                          (IF st = "train" THEN train1 ELSE IF st = "val" THEN val0 ELSE test0).items,
                          shards[st])
                 ELSE shards[st]]
           /\ labels_size_dict' = IF raised = None /\ IsNone(labels_size_dict)
                                  THEN Some(size2) ELSE labels_size_dict
           /\ call' = [Call("setup", stage, raised)
                          EXCEPT !.loaded = {st \in Stages :
                                                /\ lff(st)
                                                /\ \/ st \in {"train", "val"} /\ fit
                                                   \/ st = "test" /\ test_done},
                                 !.saved = {st \in Stages :
                                                \/ st = "train" /\ save_train
                                                \/ st = "val" /\ save_val
                                                \/ st = "test" /\ save_test}]
           /\ UNCHANGED <<config, helper_call, _data_is_prepared, prepared_fields, cache_file, saved_state>>

\* ============================================================ specifications
StageArgs == {"fit", "test", None}

Next ==
    \/ PrepareData
    \/ \E stage \in StageArgs : Setup(stage)
    \/ NewModule
    \/ CorruptCache

NoPath == {NoneV}
AnyPath == {NoneV, Some("dir")}

\* an external split file: the lists of absolute row indices
SplitFile(train, val, test) == Some([train |-> train, val |-> val, test |-> test])

\* ---- the life cycle: a few configurations, every order of calls
LifecycleTables ==
    { <<Table(<<1, 3>>), Table(<<2, 3>>)>>,     \* every molecule in both tasks
      <<Table(<<1, 3>>), Table(<<2>>)>>,        \* molecule 2 only in the first task
      <<Table(<<1>>), Table(<<3>>)>>,           \* no shared molecule
      <<Table(<<1, 3>>), Table(<<3>>)>> }       \* molecule 1 only in the first task

LifecycleSplits ==
    { <<0, NoneV>>, <<50, NoneV>>, <<0, SplitFile({1}, {}, {2})>> }

LifecycleArgs ==
    { [task \in TaskSet |->
          TaskArgs(dfs[TaskPos(task)], NoneV, sp[1], 0, 0, sp[2])] :
      dfs \in LifecycleTables, sp \in LifecycleSplits }

Init == InitWith(LifecycleArgs, {{}, {3}}, AnyPath, AnyPath, {"default", "custom"})

Spec == Init /\ [][Next]_vars

\* ---- the featurization pipeline: every table, failure set and sub-sample
TablesOfLen(n) == {Table(sm) : sm \in [1..n -> Smiles]}

PipelineArgs ==
    { [task \in TaskSet |->
          IF task = TaskOrder[1]
          THEN TaskArgs(dfA, size, 0, 0, seed, NoneV)
          ELSE TaskArgs(dfB, NoneV, 0, 0, seed, NoneV)] :
      dfA \in TablesOfLen(MaxRows), dfB \in TablesOfLen(2),
      size \in {NoneV} \cup {Some(k) : k \in 1..(MaxRows - 1)},
      seed \in Seeds }

InitPipeline == InitWith(PipelineArgs, SUBSET Smiles, NoPath, NoPath, {"default"})

NextPipeline == PrepareData

SpecPipeline == InitPipeline /\ [][NextPipeline]_vars

\* ---- the splits: one table, every seed, random fractions and split files
\* the table of the first task: MaxRows + 1 rows, strings 1, 2, 3, 1, ...
SplitTable == Table([i \in 1..(MaxRows + 1) |-> ((i - 1) % 3) + 1])

\* (split_val, split_test), in percent
SplitFractions == { <<0, 0>>, <<50, 0>>, <<25, 25>>, <<34, 33>>, <<0, 50>>, <<60, 40>> }

\* the split files: any two lists of row indices for train and val, some of
\* them naming rows the table does not have
SplitFiles ==
    { SplitFile(train, val, test) :
        train \in SUBSET (1..(MaxRows + 2)), val \in SUBSET (1..(MaxRows + 2)),
        test \in {{}, {MaxRows + 1}} }

SplitConfigs ==
    { <<fr[1], fr[2], seed, NoneV>> : fr \in SplitFractions, seed \in Seeds }
    \cup { <<0, 0, seed, file>> : seed \in {0, 1}, file \in SplitFiles }

SplitArgs ==
    { [task \in TaskSet |->
          IF task = TaskOrder[1]
          THEN TaskArgs(SplitTable, size, c[1], c[2], c[3], c[4])
          ELSE TaskArgs(Table(<<1>>), NoneV, 0, 0, 0, NoneV)] :
      size \in {NoneV, Some(MaxRows)}, c \in SplitConfigs }

InitSplit == InitWith(SplitArgs, {{}, {3}}, NoPath, NoPath, {"default"})

NextSplit == PrepareData

SpecSplit == InitSplit /\ [][NextSplit]_vars

\* ==================================================================== claims
\* prepare_data has just run the whole pipeline (no early return, no cache
\* hit) and returned normally
full_pipeline_ran ==
    /\ call.op = "prepare_data"
    /\ ~IsNone(call.featurized)
    /\ call.raised = None

\* ---------------------------------------------------------------------- C1
\* the combined list of molecule strings of all tasks, as prepare_data
\* concatenates them after sub-sampling
combined_smiles == all_smiles_of(task_dataset_args(task_specific_args))

\* the string at the first occurrence of a canonical id in the combined list
first_occurrence(id) ==
    combined_smiles[CHOOSE i \in DOMAIN combined_smiles :
                       /\ MolId(combined_smiles[i]) = id
                       /\ \A j \in 1..(i - 1) : MolId(combined_smiles[j]) # id]

distinct_ids == {MolId(combined_smiles[i]) : i \in DOMAIN combined_smiles}

\* C1: when prepare_data runs the pipeline on a combined list with u distinct
\* canonical ids, the featurizer receives exactly u strings, one per id and
\* each the first occurrence of its id; and every row kept in a task's
\* dataset holds the very feature object (same identity) that the featurizer
\* returned for the first occurrence of the row's id.
C1_FeaturizeFirstOccurrences ==
    ~IsNone(call.featurized) =>
        LET sent == Get(call.featurized)
        IN  /\ Len(sent) = Cardinality(distinct_ids)
            /\ \A id \in distinct_ids :
                  \E k \in DOMAIN sent : sent[k] = first_occurrence(id)
            /\ \A task \in TaskSet :
                  LET ds == Get(single_task_datasets)[task]
                  IN  \A p \in DOMAIN ds.features :
                         /\ ds.features[p].ref \in DOMAIN sent
                         /\ sent[ds.features[p].ref] = first_occurrence(ds.unique_ids[p])
                         /\ ds.features[p].smiles = first_occurrence(ds.unique_ids[p])
                         /\ ds.unique_ids[p] = MolId(ds.smiles[p])

\* the pipeline ran on a list that repeats a molecule, written differently,
\* in both tasks, and the later row was kept
C1_Witness ==
    /\ full_pipeline_ran
    /\ Len(Get(call.featurized)) < Len(combined_smiles)
    /\ \E p \in DOMAIN Get(single_task_datasets)[TaskOrder[2]].features :
          LET ds == Get(single_task_datasets)[TaskOrder[2]]
          IN  /\ ds.features[p].smiles # ds.smiles[p]
              /\ ds.features[p].smiles \in Range(task_dataset_args(task_specific_args)[TaskOrder[1]].smiles)

\* ---------------------------------------------------------------------- C2
\* the rows of a task that prepare_data works on (after sub-sampling)
sampled_rows(task) ==
    Range(sub_sample_df(task_specific_args[task].df,
                        task_specific_args[task].sample_size,
                        task_specific_args[task].seed))

\* the featurization of the row's molecule failed: the string sent to the
\* featurizer for the row's canonical id is one the transformer fails on
row_failed(task, r) ==
    first_occurrence(MolId(task_specific_args[task].df[r].smiles)) \in smiles_transformer

\* C2: after the full pipeline every entry of every SingleTaskDataset holds a
\* feature that did not fail, together with the label, SMILES and unique id
\* of one and the same input row (the row its idx names), and the feature is
\* that of the row's molecule; no row whose featurization failed is in any
\* SingleTaskDataset.
C2_FilteredConsistently ==
    ~IsNone(call.featurized) =>
        \A task \in TaskSet :
            LET ds == Get(single_task_datasets)[task]
                df == task_specific_args[task].df
            IN  /\ \A p \in DOMAIN ds.features :
                      /\ ~did_featurization_fail(ds.features[p])
                      /\ ds.indices[p] \in sampled_rows(task)
                      /\ ds.smiles[p] = df[ds.indices[p]].smiles
                      /\ ds.labels[p] = df[ds.indices[p]].label
                      /\ ds.unique_ids[p] = MolId(df[ds.indices[p]].smiles)
                      /\ MolId(ds.features[p].smiles) = ds.unique_ids[p]
                /\ DOMAIN ds.features = DOMAIN ds.smiles
                /\ DOMAIN ds.features = DOMAIN ds.labels
                /\ DOMAIN ds.features = DOMAIN ds.unique_ids
                /\ DOMAIN ds.features = DOMAIN ds.indices
                /\ \A r \in sampled_rows(task) :
                      row_failed(task, r) => r \notin Range(ds.indices)

\* a task lost its first row to a failed featurization and kept a later one
C2_Witness ==
    /\ full_pipeline_ran
    /\ \E task \in TaskSet :
          LET ds == Get(single_task_datasets)[task]
          IN  /\ Len(ds.features) >= 1
              /\ 1 \in sampled_rows(task)
              /\ row_failed(task, 1)
              /\ \A p \in DOMAIN ds.indices : ds.indices[p] > 1

\* ---------------------------------------------------------------------- C3
\* C3: for every task and every seed the train, val and test index lists
\* that _get_split_indices returned are pairwise disjoint, and their total
\* length is at most the number of rows of the task's table.
C3_SplitsDisjoint ==
    (~IsNone(task_train_indices) /\ ~IsNone(task_val_indices) /\ ~IsNone(task_test_indices)) =>
        \A task \in DOMAIN Get(task_train_indices) :
            LET train == Get(task_train_indices)[task]
                val == Get(task_val_indices)[task]
                test == Get(task_test_indices)[task]
            IN  /\ Range(train) \cap Range(val) = {}
                /\ Range(val) \cap Range(test) = {}
                /\ Range(train) \cap Range(test) = {}
                /\ Len(train) + Len(val) + Len(test) <= Len(task_specific_args[task].df)

\* ---------------------------------------------------------------------- C4
\* a readable cache file of this configuration is on disk
readable_cache == cache_file_exists /\ Get(cache_file).readable

\* after the step the object holds what a cache file stores
restored_from(params) ==
    /\ single_task_datasets' = Some(params.single_task_datasets)
    /\ task_train_indices' = Some(params.task_train_indices)
    /\ task_val_indices' = Some(params.task_val_indices)
    /\ task_test_indices' = Some(params.task_test_indices)

\* C4: a prepare_data call that finds a readable cache file under the
\* configured cache path restores the single-task datasets and the splits
\* from it, does not invoke the featurizer, and leaves the DataModule
\* prepared (_data_is_prepared true).
C4_CacheHitPrepares ==
    [][(PrepareData /\ ~_data_is_prepared /\ readable_cache) =>
          /\ restored_from(Get(cache_file).save_params)
          /\ IsNone(call'.featurized)
          /\ call'.raised = None
          /\ _data_is_prepared']_vars

\* ---------------------------------------------------------------------- C5
\* a cache file is on disk and cannot be deserialized
corrupt_cache == cache_file_exists /\ ~Get(cache_file).readable

\* C5: when the cache file exists but cannot be deserialized, prepare_data
\* treats it as a miss: it reads the file, restores nothing from it, runs the
\* whole pipeline (the featurizer is invoked), raises nothing on account of
\* the cache (the only exception left is the pipeline's own ValueError of an
\* impossible split), and when the pipeline completes the DataModule is
\* prepared and the cache file has been written again.
C5_CorruptCacheRecomputes ==
    [][(PrepareData /\ ~_data_is_prepared /\ corrupt_cache) =>
          /\ call'.cache_read
          /\ ~call'.cache_hit
          /\ ~IsNone(call'.featurized)
          /\ call'.raised \in {None, "ValueError"}
          /\ _data_is_prepared' = (call'.raised = None)
          /\ call'.raised = None =>
                /\ Get(cache_file').readable
                /\ restored_from(Get(cache_file').save_params)]_vars

\* prepare_data has recovered from a corrupt cache file
C5_Witness ==
    /\ full_pipeline_ran
    /\ call.cache_read
    /\ call.cache_write
    /\ _data_is_prepared
    /\ \E task \in TaskSet : Len(Get(single_task_datasets)[task].features) > 0

\* ---------------------------------------------------------------------- C6
\* C6: whenever prepare_data has restored a DataModule from the cache file,
\* its single_task_datasets, its three index dicts and its three stage
\* subset dicts equal those the DataModule that wrote the file held when it
\* saved it.
C6_CacheRoundTrip ==
    (call.op = "prepare_data" /\ call.cache_hit) =>
        /\ ~IsNone(saved_state)
        /\ ObjectState = Get(saved_state)

\* a fresh DataModule was restored from a cache whose val and test splits
\* differ
C6_Witness ==
    /\ call.op = "prepare_data"
    /\ call.cache_hit
    /\ \E task \in TaskSet :
          /\ Len(Get(task_val_indices)[task]) > 0
          /\ Len(Get(task_test_indices)[task]) = 0
          /\ Len(Get(train_singletask_datasets)[task].indices) > 0

\* ---------------------------------------------------------------------- C7
\* C7: prepare_data on a prepared DataModule returns without error, does not
\* featurize, neither reads nor writes the cache, and changes none of
\* single_task_datasets, the index dicts and the stage subsets.
C7_PrepareIdempotent ==
    [][(PrepareData /\ _data_is_prepared) =>
          /\ call'.raised = None
          /\ call'.skipped
          /\ IsNone(call'.featurized)
          /\ ~call'.cache_read
          /\ ~call'.cache_write
          /\ cache_file' = cache_file
          /\ prepared_fields' = prepared_fields
          /\ _data_is_prepared']_vars

\* prepare_data was called again on a prepared DataModule with data and a
\* cache file on disk
C7_Witness ==
    /\ call.op = "prepare_data"
    /\ call.skipped
    /\ _data_is_prepared
    /\ ~IsNone(cache_file)
    /\ \E task \in TaskSet : Len(Get(single_task_datasets)[task].features) > 0

\* ---------------------------------------------------------------------- C8
\* the molecules of a stage: the canonical ids of the rows of its subsets
stage_molecules(subsets) ==
    UNION { {subsets[task].dataset.unique_ids[subsets[task].indices[k]] :
                k \in DOMAIN subsets[task].indices} : task \in DOMAIN subsets }

\* ds (None or a MultitaskDataset) is built over the given stage subsets: it
\* holds one item per molecule of the stage
built_over(ds, subsets) ==
    /\ ~IsNone(ds)
    /\ Len(Get(ds).items) = Cardinality(stage_molecules(Get(subsets)))
    /\ {MolId(Get(ds).items[i].features.smiles) : i \in DOMAIN Get(ds).items}
          = stage_molecules(Get(subsets))

\* setup got past its dataset building: it returned, or only the final
\* update of the collate function raised
built_phase_done(c) == c.raised \in {None, "AttributeError"}

C9_SetupIncremental ==
    [][\A stage \in StageArgs :
          Setup(stage) =>
             /\ call'.raised = None
             /\ ~IsNone(train_ds) => ~IsNone(train_ds')
             /\ ~IsNone(val_ds) => ~IsNone(val_ds')
             /\ ~IsNone(test_ds) => ~IsNone(test_ds')
             /\ (stage = "test" /\ ~IsNone(train_ds) /\ ~IsNone(val_ds)) =>
                   (~IsNone(train_ds') /\ ~IsNone(val_ds') /\ ~IsNone(test_ds'))
             /\ (stage = "fit" /\ ~IsNone(test_ds)) =>
                   (~IsNone(train_ds') /\ ~IsNone(val_ds') /\ ~IsNone(test_ds'))]_vars

\* --------------------------------------------------------------------- C10
\* the stages a setup call is asked for
requested(stage) ==
    IF stage = "fit" THEN {"train", "val"}
    ELSE IF stage = "test" THEN {"test"}
    ELSE Stages

\* the stage's shard directory exists and has entries
shard_dir_non_empty(st) == ~IsNone(shards[st]) /\ Get(shards[st]).buckets # {}

stage_ds(st) == IF st = "train" THEN train_ds ELSE IF st = "val" THEN val_ds ELSE test_ds

\* the shard directory dir holds exactly the items of the dataset ds
shards_hold(dir, ds) ==
    IF Len(ds.items) = 0 THEN TRUE
    ELSE /\ ~IsNone(dir)
         /\ DOMAIN Get(dir).files = DOMAIN ds.items
         /\ \A i \in DOMAIN ds.items :
               /\ Get(dir).files[i].graph_with_features = ds.items[i].features
               /\ Get(dir).files[i].labels = ds.items[i].labels

labels_in(ds, task) ==
    {Get(ds).items[i].labels[task].value :
        i \in {j \in DOMAIN Get(ds).items : task \in DOMAIN Get(ds).items[j].labels}}

\* the tasks that have a label in the stage dataset
tasks_in(ds) == UNION {DOMAIN Get(ds).items[i].labels : i \in DOMAIN Get(ds).items}

\* C11: a setup call that builds the training stage (processed_graph_data_path
\* configured, training shard directory absent or empty) leaves, for every
\* task with a label in the training dataset, statistics computed from that
\* task's training labels, and the task_norms file holds these statistics.
C11_TrainStatisticsStored ==
    [][\A stage \in {"fit", None} :
          (Setup(stage) /\ ~IsNone(processed_graph_data_path)
                        /\ ~(~IsNone(shards["train"]) /\ Get(shards["train"]).buckets # {})) =>
             /\ ~IsNone(norms_file')
             /\ Get(norms_file') = task_norms'
             /\ \A task \in tasks_in(train_ds') :
                   /\ ~IsNone(task_norms'[task])
                   /\ Range(Get(task_norms'[task])) = labels_in(train_ds', task)]_vars

\* ============================================== constructor and static helpers
\* the object of the life cycle, idle, while a helper call is examined
InitHelper(calls) ==
    /\ task_specific_args = [task \in TaskSet |-> TaskArgs(Table(<<1>>), NoneV, 0, 0, 0, NoneV)]
    /\ smiles_transformer = {}
    /\ cache_data_path = NoneV
    /\ processed_graph_data_path = NoneV
    /\ collate_fn = "default"
    /\ NewObject
    /\ cache_file = NoneV
    /\ norms_file = NoneV
    /\ shards = [st \in Stages |-> NoneV]
    /\ call = Call("init", None, None)
    /\ saved_state = NoneV
    /\ helper_call \in calls

\* the helper call op returns (or raises) result
Returns(op, result) ==
    /\ helper_call.op = op
    /\ IsNone(helper_call.out)
    /\ helper_call' = [helper_call EXCEPT !.out = Some(result)]
    /\ UNCHANGED <<config, _data_is_prepared, prepared_fields, stage_fields, task_norms,
                   disk, call, saved_state>>

\* the helper call op has run
ran(op) == helper_call.op = op /\ ~IsNone(helper_call.out)

\* ---------------------------------------------------------------- data hash
\* get_md5_hash: a fingerprint of the value, without collisions
get_md5_hash(object) == <<"md5", object>>

\* a faulty variant of get_data_hash that leaves the task specification out
\* (what C12 rules out)
get_data_hash_of_transformer(transformer, task_args) ==
    get_md5_hash([smiles_transformer |-> transformer])

\* get_data_hash
get_data_hash(transformer, task_args) ==
    get_md5_hash([smiles_transformer |-> transformer, task_specific_args |-> task_args])

\* get_data_cache_fullname: None without a cache path
get_data_cache_fullname(cache_path, data_hash, compress) ==
    IF IsNone(cache_path) THEN NoneV
    ELSE Some([dir  |-> Get(cache_path),
               file |-> <<data_hash, IF compress THEN ".datacache.gz" ELSE ".datacache">>])

\* a faulty variant of the constructor's pack-size check, accepting every
\* pack size (what C13 rules out)
no_pack_check(training, inference, per_pack) == None

\* BaseDataModule.__init__: the exception of its pack-size checks
base_init_raised(training, inference, per_pack) ==
    IF IsNone(per_pack) THEN None
    ELSE IF Get(per_pack) = 0 THEN "ZeroDivisionError"
    ELSE IF training % Get(per_pack) # 0 THEN "AssertionError"
    ELSE IF inference % Get(per_pack) # 0 THEN "AssertionError"
    ELSE None

\* MultitaskFromSmilesDataModule.__init__: the base constructor first; at the
\* end the transformer is the featurization function with the featurization
\* arguments bound, and the hash is computed from it
construct(cfg) ==
    IF base_init_raised(cfg.batch_size_training, cfg.batch_size_inference,
                        cfg.batch_size_per_pack) # None
    THEN [raised         |-> base_init_raised(cfg.batch_size_training,
                                              cfg.batch_size_inference,
                                              cfg.batch_size_per_pack),
          data_hash |-> NoneV, cache_fullname |-> NoneV]
    ELSE IF cfg.prepare_dict_or_graph \notin {"pyg:dict", "pyg:graph"}
    THEN [raised |-> "ValueError", data_hash |-> NoneV, cache_fullname |-> NoneV]
    ELSE LET transformer ==
                 [func     |-> IF cfg.prepare_dict_or_graph = "pyg:dict"
                               THEN "mol_to_graph_dict" ELSE "mol_to_pyggraph",
                  keywords |-> cfg.featurization]
         IN  [raised         |-> None,
              data_hash      |-> Some(get_data_hash(transformer, cfg.task_specific_args)),
              cache_fullname |-> get_data_cache_fullname(
                                     cfg.cache_data_path,
                                     get_data_hash(transformer, cfg.task_specific_args),
                                     FALSE)]

\* two DataModules are constructed
ConstructTwo ==
    \E c \in {helper_call.args} :
        Returns("construct_two", <<construct(c[1]), construct(c[2])>>)

\* task specifications as the hash sees them: the structure, not the data
HashTaskSpecs ==
    { [tA |-> [df_path |-> path, smiles_col |-> "smiles", seed |-> seed]] :
        path \in {"a.csv", "b.csv"}, seed \in {0, 1} }

HashConfigs ==
    [featurization         : {[add_self_loop |-> FALSE], [add_self_loop |-> TRUE]},
     prepare_dict_or_graph : {"pyg:dict", "pyg:graph", "pyg"},
     task_specific_args    : HashTaskSpecs,
     featurization_n_jobs  : {1, 2},
     cache_data_path       : {NoneV, Some("dir")},
     batch_size_training   : {16},
     batch_size_inference  : {16},
     batch_size_per_pack   : {NoneV}]

InitHash == InitHelper({HelperCall("construct_two", <<c1, c2>>) : c1, c2 \in HashConfigs})

NextHash == ConstructTwo

SpecHash == InitHash /\ [][NextHash]_vars

\* --------------------------------------------------------------------- C12
\* the configuration the data depends on: the featurization arguments, the
\* kind of graph to prepare and the task specification
same_data_configuration(c1, c2) ==
    /\ c1.featurization = c2.featurization
    /\ c1.prepare_dict_or_graph = c2.prepare_dict_or_graph
    /\ c1.task_specific_args = c2.task_specific_args

\* C12: two DataModules with the same featurization configuration and task
\* specification get the same data hash, and with the same cache path the
\* same cache file name; two DataModules that differ in a featurization
\* argument or in the task specification get different hashes and different
\* cache file names, so neither finds the other's cache file.
C12_HashDeterministicAndSensitive ==
    ran("construct_two") =>
        LET c1 == helper_call.args[1]
            c2 == helper_call.args[2]
            m1 == Get(helper_call.out)[1]
            m2 == Get(helper_call.out)[2]
        IN  (m1.raised = None /\ m2.raised = None) =>
               /\ same_data_configuration(c1, c2) =>
                     /\ m1.data_hash = m2.data_hash
                     /\ c1.cache_data_path = c2.cache_data_path =>
                           m1.cache_fullname = m2.cache_fullname
               /\ ~same_data_configuration(c1, c2) =>
                     /\ m1.data_hash # m2.data_hash
                     /\ (~IsNone(m1.cache_fullname) /\ ~IsNone(m2.cache_fullname)) =>
                           m1.cache_fullname # m2.cache_fullname

\* two DataModules that share the cache directory and the featurization and
\* differ in the seed of a task were constructed
C12_Witness ==
    /\ ran("construct_two")
    /\ LET c1 == helper_call.args[1]
           c2 == helper_call.args[2]
       IN  /\ c1.featurization = c2.featurization
           /\ c1.prepare_dict_or_graph = c2.prepare_dict_or_graph
           /\ c1.task_specific_args.tA.seed # c2.task_specific_args.tA.seed
           /\ c1.task_specific_args.tA.df_path = c2.task_specific_args.tA.df_path
           /\ c1.cache_data_path = Some("dir")
           /\ c2.cache_data_path = Some("dir")
           /\ Get(helper_call.out)[1].raised = None
           /\ Get(helper_call.out)[2].raised = None

\* ------------------------------------------------------------- construction
\* one DataModule is constructed
Construct == \E c \in {helper_call.args} : Returns("construct", construct(c))

PackConfigs ==
    [featurization         : {[add_self_loop |-> FALSE]},
     prepare_dict_or_graph : {"pyg:graph", "pyg"},
     task_specific_args    : {CHOOSE t \in HashTaskSpecs : TRUE},
     featurization_n_jobs  : {1},
     cache_data_path       : {NoneV},
     batch_size_training   : {8, 16, 24, 32},
     batch_size_inference  : {8, 16, 32},
     batch_size_per_pack   : {NoneV} \cup {Some(k) : k \in {0, 1, 2, 3, 4, 5, 8, 16, 32}}]

InitConstruct == InitHelper({HelperCall("construct", c) : c \in PackConfigs})

NextConstruct == Construct

SpecConstruct == InitConstruct /\ [][NextConstruct]_vars

\* --------------------------------------------------------------------- C13
\* k divides n
divides(k, n) == k # 0 /\ \E q \in 0..n : q * k = n

\* C13: a constructor call with batch_size_per_pack set raises unless
\* batch_size_per_pack divides the training and the inference batch size, and
\* when it does divide both the pack size is accepted; no data has been
\* loaded when the constructor has run.  In particular batch_size_training =
\* 32 (batch_size_inference = 16) fails with batch_size_per_pack = 5 and
\* passes the check with batch_size_per_pack = 8.
C13_PackSizeValidated ==
    ran("construct") =>
        LET c == helper_call.args
            m == Get(helper_call.out)
        IN  /\ ~IsNone(c.batch_size_per_pack) =>
                  IF /\ divides(Get(c.batch_size_per_pack), c.batch_size_training)
                     /\ divides(Get(c.batch_size_per_pack), c.batch_size_inference)
                  THEN m.raised \notin {"AssertionError", "ZeroDivisionError"}
                  ELSE m.raised \in {"AssertionError", "ZeroDivisionError"}
            /\ (c.batch_size_training = 32 /\ c.batch_size_inference = 16) =>
                  /\ c.batch_size_per_pack = Some(5) => m.raised = "AssertionError"
                  /\ (c.batch_size_per_pack = Some(8) /\ c.prepare_dict_or_graph = "pyg:graph")
                        => m.raised = None
            /\ IsNone(single_task_datasets)
            /\ ~_data_is_prepared

\* the constructor rejected batch_size_training = 32 with pack size 5
C13_Witness ==
    /\ ran("construct")
    /\ helper_call.args.batch_size_training = 32
    /\ helper_call.args.batch_size_per_pack = Some(5)
    /\ Get(helper_call.out).raised = "AssertionError"

\* --------------------------------------------------------- label extraction
\* column names
N_smiles == <<"s", "m", "i", "l", "e", "s">>
N_SMILES == <<"S", "M", "I", "L", "E", "S">>
N_isoSmile == <<"i", "s", "o", "S", "m", "i", "l", "e">>
N_mol == <<"m", "o", "l">>
N_y == <<"y">>
N_w == <<"w">>

ColumnLists ==
    { <<N_smiles, N_y>>, <<N_SMILES, N_y>>, <<N_mol, N_y>>,
      <<N_smiles, N_isoSmile, N_y>>, <<N_smiles, N_y, N_w>> }

\* the cells of the label column y
LabelColumns ==
    { <<<<"num", 0>>, <<"num", 0>>, <<"num", 1>>, <<"num", 1>>, <<"num", 1>>>>,
      <<<<"num", 0>>, <<"num", 0>>>>,
      <<<<"num", 1>>, <<"num", 1>>>>,
      <<<<"num", 1>>, <<"num", 2>>>>,
      <<<<"num", 0>>, <<"str", 1>>>> }

\* a frame with the given columns: y holds the labels, w numbers, every other
\* column text
Frame(columns, y) ==
    [columns |-> columns,
     index   |-> [r \in DOMAIN y |-> r],
     data    |-> [c \in DOMAIN columns |->
                     IF columns[c] = N_y THEN y
                     ELSE IF columns[c] = N_w THEN [r \in DOMAIN y |-> <<"num", r>>]
                     ELSE [r \in DOMAIN y |-> <<"str", r>>]]]

Frames == {Frame(columns, y) : columns \in ColumnLists, y \in LabelColumns}

WeightsTypes ==
    {NoneV, Some("sample_balanced"), Some("sample_label_balanced"), Some("other")}

\* the arguments of the direct calls of _extract_smiles_labels
ExtractArgs ==
    [df           : Frames,
     smiles_col   : {NoneV, Some(N_smiles)},
     label_cols   : {NoneV, Some([kind |-> "list", v |-> <<N_y>>])},
     idx_col      : {NoneV},
     weights_col  : {NoneV, Some(N_w)},
     weights_type : WeightsTypes]

\* the processing parameters of one task, as prepare_data reads them
ExtractTaskArgs ==
    [df           : Frames,
     smiles_col   : {NoneV, Some(N_smiles)},
     label_cols   : {NoneV,
                     Some([kind |-> "list", v |-> <<N_y>>]),
                     Some([kind |-> "str", v |-> <<N_y>>]),
                     Some([kind |-> "str", v |-> <<<<"y", "*">>>>]),
                     Some([kind |-> "str", v |-> <<<<"*", "s">>>>])},
     idx_col      : {NoneV},
     weights_col  : {NoneV},
     weights_type : {NoneV}]

ExtractSmilesLabels ==
    \E c \in {helper_call.args} :
        Returns("_extract_smiles_labels",
                _extract_smiles_labels(c.df, c.smiles_col,
                                       IF IsNone(c.label_cols) THEN NoneV
                                       ELSE Some(Get(c.label_cols).v),
                                       c.idx_col, c.weights_col, c.weights_type))

ExtractTask == \E c \in {helper_call.args} : Returns("extract_task", extract_task(c))

InitExtract ==
    InitHelper({HelperCall("_extract_smiles_labels", c) : c \in ExtractArgs}
               \cup {HelperCall("extract_task", c) : c \in ExtractTaskArgs})

NextExtract == ExtractSmilesLabels \/ ExtractTask

SpecExtract == InitExtract /\ [][NextExtract]_vars

\* --------------------------------------------------------------------- C14
\* the extraction was called on a frame whose SMILES column is found, with a
\* weights type and no weights column
weights_requested ==
    /\ ran("_extract_smiles_labels")
    /\ ~IsNone(helper_call.args.weights_type)
    /\ IsNone(helper_call.args.weights_col)
    /\ helper_call.args.label_cols = Some([kind |-> "list", v |-> <<N_y>>])
    /\ ~IsNone(Get(helper_call.out).smiles_col)
    /\ has_column(helper_call.args.df, Get(Get(helper_call.out).smiles_col))

\* C14: for the label column [0, 0, 1, 1, 1] and weights_type
\* "sample_balanced" the extraction returns the weights [0.16, 0.16, 1, 1, 1]
\* (in percent: 16, 16, 100, 100, 100).
C14_SampleBalancedExample ==
    ( /\ weights_requested
      /\ helper_call.args.weights_type = Some("sample_balanced")
      /\ column(helper_call.args.df, N_y)
            = <<<<"num", 0>>, <<"num", 0>>, <<"num", 1>>, <<"num", 1>>, <<"num", 1>>>> )
    => /\ Get(helper_call.out).raised = None
       /\ Get(helper_call.out).weights = Some(<<16, 16, 100, 100, 100>>)

\* --------------------------------------------------------------------- C15
\* C15: for every binary label matrix and either weights type the extraction
\* returns weights, and their maximum is exactly 1 (100 percent).
C15_WeightsMaxOne ==
    ( /\ weights_requested
      /\ helper_call.args.weights_type
            \in {Some("sample_balanced"), Some("sample_label_balanced")}
      /\ is_binary(label_matrix(helper_call.args.df, <<N_y>>)) )
    => /\ Get(helper_call.out).raised = None
       /\ ~IsNone(Get(helper_call.out).weights)
       /\ \E r \in DOMAIN Get(Get(helper_call.out).weights) :
             Get(Get(helper_call.out).weights)[r] = 100
       /\ \A r \in DOMAIN Get(Get(helper_call.out).weights) :
             Get(Get(helper_call.out).weights)[r] <= 100

\* ------------------------------------------------- prepare_data and weights
\* the table with a label that is neither 0 nor 1 in its first row
NonBinary(df) == [df EXCEPT ![1].label = 2]

\* the first task with every choice of weights_col and weights_type, on
\* tables with and without a non-binary label; the second task is plain
WeightsArgs ==
    { [task \in TaskSet |->
          IF task = TaskOrder[1]
          THEN [TaskArgs(df, size, 0, 0, seed, NoneV)
                   EXCEPT !.weights_col = wc, !.weights_type = wt]
          ELSE TaskArgs(Table(<<1>>), NoneV, 0, 0, 0, NoneV)] :
      df \in TablesOfLen(2) \cup {NonBinary(d) : d \in TablesOfLen(2)},
      size \in {NoneV, Some(1)}, seed \in {0, 1},
      wc \in {NoneV, Some("idx")}, wt \in WeightsTypes }

InitWeights == InitWith(WeightsArgs, {{}, {3}}, NoPath, NoPath, {"default"})

NextWeights == PrepareData

SpecWeights == InitWeights /\ [][NextWeights]_vars

\* --------------------------------------------------------------------- C16
\* prepare_data has run through its extraction loop
extraction_ran == call.op = "prepare_data" /\ ~call.skipped /\ ~call.cache_hit

\* a task asks for a weights type and one of its extracted labels is not 0/1
non_binary_with_weights_type ==
    \E task \in TaskSet :
        /\ ~IsNone(task_specific_args[task].weights_type)
        /\ \E r \in sampled_rows(task) :
              task_specific_args[task].df[r].label \notin {0, 1}

\* C16: when a task requests a weights type and one of its labels is not 0
\* or 1, prepare_data raises ValueError, and it does so before any molecule
\* is featurized (no featurization call, no dataset built).
C16_NonBinaryAborts ==
    (extraction_ran /\ non_binary_with_weights_type)
    => /\ call.raised = "ValueError"
       /\ IsNone(call.featurized)
       /\ IsNone(single_task_datasets)

\* --------------------------------------------------------------------- C17
\* C17: a task that sets both weights_col and weights_type is rejected:
\* prepare_data raises and the data is not prepared.
C17_BothWeightsRejected ==
    ( /\ extraction_ran
      /\ \E task \in TaskSet :
            /\ ~IsNone(task_specific_args[task].weights_col)
            /\ ~IsNone(task_specific_args[task].weights_type) )
    => /\ call.raised # None
       /\ ~_data_is_prepared

\* --------------------------------------------------------------------- C18
\* the positions of the columns whose name contains "smile" in any case
smile_columns(columns) ==
    {c \in DOMAIN columns : contains(smile, lower(columns[c]))}

\* C18: called without a SMILES column, the extraction uses the single column
\* whose name contains "smile" case-insensitively, and raises ValueError,
\* choosing no column, when no column or more than one column matches.
C18_SmilesColumnDetected ==
    (ran("_extract_smiles_labels") /\ IsNone(helper_call.args.smiles_col))
    => IF Cardinality(smile_columns(helper_call.args.df.columns)) = 1
       THEN \E c \in smile_columns(helper_call.args.df.columns) :
               Get(helper_call.out).smiles_col = Some(helper_call.args.df.columns[c])
       ELSE /\ Get(helper_call.out).raised = "ValueError"
            /\ IsNone(Get(helper_call.out).smiles_col)
            /\ IsNone(Get(helper_call.out).smiles)

\* the column SMILES was found without being named, and its cells returned
C18_Witness ==
    /\ ran("_extract_smiles_labels")
    /\ IsNone(helper_call.args.smiles_col)
    /\ Get(helper_call.out).raised = None
    /\ Get(helper_call.out).smiles_col = Some(N_SMILES)
    /\ Get(helper_call.out).smiles = Some(column(helper_call.args.df, N_SMILES))

\* --------------------------------------------------------------------- C19
\* C19: with label_cols None the label columns that prepare_data extracts
\* for a table are all its columns except the SMILES column, whether that
\* column was named or found by the search.
C19_AllOtherColumnsAreLabels ==
    ( /\ ran("extract_task")
      /\ IsNone(helper_call.args.label_cols)
      /\ Get(helper_call.out).raised = None )
    => Get(helper_call.out).label_cols
          = Some(SelectSeq(helper_call.args.df.columns,
                           LAMBDA col : Some(col) # Get(helper_call.out).smiles_col))

\* --------------------------------------------------------------------- C20
\* the first task takes its split from a file
file_mode == ~IsNone(task_specific_args[TaskOrder[1]].splits_path)

\* sample_idx of the first task as _get_split_indices receives it: the row
\* indices of the rows kept by sub-sampling and failure filtering, in order
\* (the idx column of a table holds the row index)
kept_sample_idx == Get(single_task_datasets)[TaskOrder[1]].indices

\* the positions, in kept_sample_idx, of the rows that the list names
positions_of(list) == {p \in DOMAIN kept_sample_idx : kept_sample_idx[p] \in list}

no_duplicates(seq) == Cardinality(Range(seq)) = Len(seq)

random_mode_no_test ==
    /\ full_pipeline_ran
    /\ ~file_mode
    /\ task_specific_args[TaskOrder[1]].split_test = 0

\* C21: in random-split mode with split_test = 0 the test split is empty and
\* the whole holdout (ceil(split_val * n) of the n rows) is the val split,
\* the other rows being train; with split_val = 0 as well, every row is in
\* train and val is empty too.
C21_HoldoutIsVal ==
    random_mode_no_test =>
        LET train == Get(task_train_indices)[TaskOrder[1]]
            val == Get(task_val_indices)[TaskOrder[1]]
            test == Get(task_test_indices)[TaskOrder[1]]
            n == Len(kept_sample_idx)
            split_val == task_specific_args[TaskOrder[1]].split_val
        IN  /\ test = <<>>
            /\ Range(train) \cup Range(val) = 1..n
            /\ Range(train) \cap Range(val) = {}
            /\ Len(val) = (split_val * n + 99) \div 100
            /\ split_val = 0 => (val = <<>> /\ Range(train) = 1..n)

\* a random split with split_test = 0 and a non-empty val split
C21_Witness ==
    /\ random_mode_no_test
    /\ task_specific_args[TaskOrder[1]].split_val > 0
    /\ Len(Get(task_val_indices)[TaskOrder[1]]) > 0
    /\ Len(Get(task_train_indices)[TaskOrder[1]]) > 0

\* -------------------------------------------------------------- dataloaders
\* BaseDataModule.get_dataloader_kwargs: the batch size of a running stage
\* (shuffle is passed through; the other options do not depend on the stage)
get_dataloader_kwargs(cfg, stage, shuffle) ==
    IF stage \in {"TRAINING"}
    THEN [raised |-> None, batch_size |-> cfg.batch_size_training, shuffle |-> shuffle]
    ELSE IF stage \in {"VALIDATING", "TESTING", "PREDICTING"}
    THEN [raised |-> None, batch_size |-> cfg.batch_size_inference, shuffle |-> shuffle]
    ELSE [raised |-> "ValueError", batch_size |-> 0, shuffle |-> shuffle]

\* get_dataloader: the keyword arguments the DataLoader is built with
get_dataloader(cfg, shuffle, stage) == get_dataloader_kwargs(cfg, stage, shuffle)

train_dataloader(cfg) == get_dataloader(cfg, TRUE, "TRAINING")

val_dataloader(cfg) == get_dataloader(cfg, FALSE, "VALIDATING")

test_dataloader(cfg) == get_dataloader(cfg, FALSE, "TESTING")

TrainDataloader ==
    \E c \in {helper_call.args} : Returns("train_dataloader", train_dataloader(c))

ValDataloader ==
    \E c \in {helper_call.args} : Returns("val_dataloader", val_dataloader(c))

TestDataloader ==
    \E c \in {helper_call.args} : Returns("test_dataloader", test_dataloader(c))

BatchSizes == {1, 8, 16, 24, 32, 64}

LoaderConfigs == [batch_size_training : BatchSizes, batch_size_inference : BatchSizes]

InitLoader ==
    InitHelper({HelperCall(op, c) :
                   op \in {"train_dataloader", "val_dataloader", "test_dataloader"},
                   c \in LoaderConfigs})

NextLoader == TrainDataloader \/ ValDataloader \/ TestDataloader

SpecLoader == InitLoader /\ [][NextLoader]_vars

\* --------------------------------------------------------------------- C22
\* C22: the training and the validation dataloader are built with
\* batch_size_training, the test dataloader with batch_size_inference.
C22_LoaderBatchSizes ==
    /\ ran("train_dataloader") =>
          Get(helper_call.out).batch_size = helper_call.args.batch_size_training
    /\ ran("val_dataloader") =>
          Get(helper_call.out).batch_size = helper_call.args.batch_size_training
    /\ ran("test_dataloader") =>
          Get(helper_call.out).batch_size = helper_call.args.batch_size_inference

\* ------------------------------------------------------------ sub-sampling
\* _sub_sample_df with a sample_size of any type, [kind, v]: an int, a float
\* (v in percent), None, or something else.  The float branch calls
\* df.sample(f=...); DataFrame.sample has no parameter f, so the call raises
\* TypeError.  The result is the index of the returned frame.
_sub_sample_df(df, sample_size, seed) ==
    IF sample_size.kind = "int"
    THEN [raised |-> None, index |-> sub_sample_df(df, Some(sample_size.v), seed)]
    ELSE IF sample_size.kind = "float"
    THEN [raised |-> "TypeError", index |-> <<>>]
    ELSE IF sample_size.kind = "None"
    THEN [raised |-> None, index |-> sub_sample_df(df, NoneV, seed)]
    ELSE [raised |-> "ValueError", index |-> <<>>]

SubSampleDf ==
    \E c \in {helper_call.args} :
        Returns("_sub_sample_df", _sub_sample_df(c.df, c.sample_size, c.seed))

SampleSizes ==
    {[kind |-> "None", v |-> 0], [kind |-> "str", v |-> 0]}
    \cup {[kind |-> "int", v |-> k] : k \in 0..(MaxRows + 2)}
    \cup {[kind |-> "float", v |-> f] : f \in {25, 50, 75}}

SampleArgs == [df : TablesOfLen(MaxRows + 1), sample_size : SampleSizes, seed : Seeds]

InitSample == InitHelper({HelperCall("_sub_sample_df", c) : c \in SampleArgs})

NextSample == SubSampleDf

SpecSample == InitSample /\ [][NextSample]_vars

\* --------------------------------------------------------------------- C23
\* C23: sub-sampling with a float sample_size between 0 and 1 does not raise
\* and keeps that fraction of the table's rows: distinct rows of the table,
\* as many as the fraction of the row count, rounded down or up.
C23_FloatSampleSize ==
    ( /\ ran("_sub_sample_df")
      /\ helper_call.args.sample_size.kind = "float"
      /\ helper_call.args.sample_size.v > 0
      /\ helper_call.args.sample_size.v < 100 )
    => LET out == Get(helper_call.out)
           n == Len(helper_call.args.df)
           f == helper_call.args.sample_size.v
       IN  /\ out.raised = None
           /\ Range(out.index) \subseteq 1..n
           /\ Cardinality(Range(out.index)) = Len(out.index)
           /\ Len(out.index) \in {(f * n) \div 100, (f * n + 99) \div 100}

\* ------------------------------------------------------------- shard files
RECURSIVE Digits(_)
\* the decimal digits of a natural number
Digits(n) == IF n < 10 THEN <<n>> ELSE Digits(n \div 10) \o <<n % 10>>

\* format(n, "0{width}d"): the digits, zero-padded on the left to width
format_d(n, width) ==
    IF Len(Digits(n)) >= width THEN Digits(n)
    ELSE [k \in 1..(width - Len(Digits(n))) |-> 0] \o Digits(n)

\* a faulty variant of process_func, writing every file into bucket 0000
\* (what C24 rules out)
process_func_one_bucket(index) ==
    [op |-> "save", datum |-> index, dir |-> format_d(0, 4), file |-> format_d(index, 7)]

\* process_func: torch.save of datum number index (0-based) to
\* folder/{index // 1000:04d}/{index:07d}.pkl
process_func(index) ==
    [op    |-> "save",
     datum |-> index,
     dir   |-> format_d(index \div BucketSize, 4),
     file  |-> format_d(index, 7)]

\* save_featurized_data on a dataset of len items: the file-system
\* operations in the order they are made, os.makedirs for i in
\* range(0, len, 1000) and then process_func for every item
save_featurized_ops(len) ==
    [k \in 1..((len + BucketSize - 1) \div BucketSize) |->
        [op |-> "makedirs", datum |-> 0, dir |-> format_d(k - 1, 4), file |-> <<>>]]
    \o [i \in 1..len |-> process_func(i - 1)]

SaveFeaturizedData ==
    \E c \in {helper_call.args} :
        Returns("save_featurized_data", [ops |-> save_featurized_ops(c.len)])

\* the dataset lengths: short ones and those around the bucket size
DatasetLengths == 0..100 \cup {BucketSize - 1, BucketSize, BucketSize + 1}

InitShards == InitHelper({HelperCall("save_featurized_data", [len |-> n]) : n \in DatasetLengths})

NextShards == SaveFeaturizedData

SpecShards == InitShards /\ [][NextShards]_vars

\* --------------------------------------------------------------------- C24
RECURSIVE number_of(_)
\* the number a string of digits denotes
number_of(digits) ==
    IF Len(digits) = 0 THEN 0
    ELSE 10 * number_of(SubSeq(digits, 1, Len(digits) - 1)) + digits[Len(digits)]

\* the positions of the save operations of datum i
saves_of(ops, i) == {k \in DOMAIN ops : ops[k].op = "save" /\ ops[k].datum = i}

\* C24: save_featurized_data writes item i to exactly one file, in the
\* bucket directory named floor(i/1000) in 4 zero-padded digits, under the
\* name i in 7 zero-padded digits; the bucket directory was created before
\* the write, distinct items get distinct files, and no bucket receives more
\* than 1000 items.
C24_ShardLayout ==
    ran("save_featurized_data") =>
        LET ops == Get(helper_call.out).ops
            len == helper_call.args.len
            saves == {k \in DOMAIN ops : ops[k].op = "save"}
        IN  /\ Cardinality(saves) = len
            /\ \A k \in saves :
                  /\ ops[k].datum \in 0..(len - 1)
                  /\ Len(ops[k].dir) = 4
                  /\ number_of(ops[k].dir) = ops[k].datum \div 1000
                  /\ Len(ops[k].file) = 7
                  /\ number_of(ops[k].file) = ops[k].datum
                  /\ \E j \in 1..(k - 1) :
                        ops[j].op = "makedirs" /\ ops[j].dir = ops[k].dir
            /\ Cardinality({ops[k].datum : k \in saves}) = len
            /\ Cardinality({<<ops[k].dir, ops[k].file>> : k \in saves}) = len
            /\ \A b \in {ops[k].dir : k \in saves} :
                  Cardinality({k \in saves : ops[k].dir = b}) <= 1000

\* a dataset of 1001 items: the last one is written to 0001/0001000
C24_Witness ==
    /\ ran("save_featurized_data")
    /\ helper_call.args.len = 1001
    /\ \E k \in DOMAIN Get(helper_call.out).ops :
          /\ Get(helper_call.out).ops[k].op = "save"
          /\ Get(helper_call.out).ops[k].dir = <<0, 0, 0, 1>>
          /\ Get(helper_call.out).ops[k].file = <<0, 0, 0, 1, 0, 0, 0>>

\* --------------------------------------------------------------------- C25
\* C25: on a DataModule constructed with a user-supplied collate_fn, setup
\* completes without error.
C25_CustomCollateSetsUp ==
    (call.op = "setup" /\ collate_fn = "custom") => call.raised = None

\* --------------------------------------------------------------------- C26
\* the stage datasets built so far
built_datasets == {ds \in {train_ds, val_ds, test_ds} : ~IsNone(ds)}

\* C26: after any sequence of setup calls, the labels_size_dict of the
\* default collate function has an entry for every task that has a label in
\* a stage dataset built so far.
C26_LabelSizesCoverAllStages ==
    (call.op = "setup" /\ call.raised = None /\ collate_fn = "default")
    => /\ ~IsNone(labels_size_dict)
       /\ \A ds \in built_datasets :
             \A i \in DOMAIN Get(ds).items :
                 DOMAIN Get(ds).items[i].labels \subseteq DOMAIN Get(labels_size_dict)

\* --------------------------------------------------------------------- C27
\* what save_featurized_data leaves when the process is stopped inside it:
\* the first loop has created every bucket directory, process_func has
\* written the files of the first k items
interrupted_shard_dir(items, k) ==
    [buckets |-> shard_dir(items).buckets,
     files   |-> Prefix(shard_dir(items).files, k)]

\* the stage subsets a stage dataset is built from
stage_subsets(st) ==
    IF st = "train" THEN train_singletask_datasets
    ELSE IF st = "val" THEN val_singletask_datasets
    ELSE test_singletask_datasets

\* setup(stage) in a process that is stopped while save_featurized_data
\* writes the stage st: the saves that setup made before are complete, the
\* directory of st is left incomplete, and the object is gone with the
\* process (the next call is made on a newly constructed DataModule)
InterruptedSave(stage) ==
    /\ _data_is_prepared
    /\ ~IsNone(processed_graph_data_path)
    /\ LET lff(st) == shard_cache_exists(shards[st])
           built(st) == MultitaskDataset(Get(stage_subsets(st)), <<>>, FALSE).items
           do_stats == fit_block(stage) /\ ~lff("train")
           stats == get_label_statistics(built("train"), task_norms, norms_file)
           norm == normalize_label(built("train"))
           fit_ok == do_stats => (stats.raised = None /\ norm.raised = None)
           items(st) == IF st = "train" /\ do_stats THEN norm.items ELSE built(st)
           rank(st) == IF st = "train" THEN 1 ELSE IF st = "val" THEN 2 ELSE 3
           saves == {st \in Stages :
                        /\ \/ st \in {"train", "val"} /\ fit_block(stage)
                           \/ st = "test" /\ test_block(stage)
                        /\ fit_ok
                        /\ ~lff(st)
                        /\ Len(items(st)) > 0}
       IN  \E st \in saves : \E k \in 0..(Len(items(st)) - 1) :
              /\ shards' = [s \in Stages |->
                    IF s = st THEN Some(interrupted_shard_dir(items(st), k))
                    ELSE IF s \in saves /\ rank(s) < rank(st)
                    THEN save_featurized_data(items(s), shards[s])
                    ELSE shards[s]]
              /\ norms_file' = IF do_stats THEN stats.file ELSE norms_file
    /\ _data_is_prepared' = FALSE
    /\ single_task_datasets' = NoneV
    /\ task_train_indices' = NoneV
    /\ task_val_indices' = NoneV
    /\ task_test_indices' = NoneV
    /\ train_singletask_datasets' = NoneV
    /\ val_singletask_datasets' = NoneV
    /\ test_singletask_datasets' = NoneV
    /\ train_ds' = NoneV
    /\ val_ds' = NoneV
    /\ test_ds' = NoneV
    /\ task_norms' = <<>>
    /\ labels_size_dict' = NoneV
    /\ call' = Call("init", None, None)
    /\ UNCHANGED <<config, helper_call, cache_file, saved_state>>

\* the life cycle with processes that may be stopped while they save shards
NextInterrupted ==
    \/ Next
    \/ \E stage \in StageArgs : InterruptedSave(stage)

SpecInterrupted == Init /\ [][NextInterrupted]_vars

\* C27: a stage that setup loaded from its shard directory has a shard file
\* for every item of the stage's dataset (one item per molecule of the stage
\* subsets).
C27_OnlyCompleteShardsLoaded ==
    (call.op = "setup" /\ ~IsNone(processed_graph_data_path)) =>
        \A st \in call.loaded :
            Len(Get(shards[st]).files)
                = Cardinality(stage_molecules(Get(stage_subsets(st))))

\* --------------------------------------------------------------------- C28
\* the number of times each label of the items was normalized
label_counts(items) ==
    UNION {{items[i].labels[t].normalized : t \in DOMAIN items[i].labels} :
              i \in DOMAIN items}

\* C28: with processed_graph_data_path configured, after a setup call that
\* built or loaded the training stage every training label, in train_ds and
\* in the training shard files, has been normalized exactly once, however
\* many setup calls and runs came before.
C28_NormalizedOnce ==
    (/\ call.op = "setup"
     /\ call.stage \in {"fit", None}
     /\ call.raised \in {None, "AttributeError"}
     /\ ~IsNone(processed_graph_data_path))
    => /\ label_counts(Get(train_ds).items) \subseteq {1}
       /\ ~IsNone(shards["train"]) =>
             label_counts(load_shards(Get(shards["train"]))) \subseteq {1}

\* --------------------------------------------------------------------- C29
\* the cache file is there and can be deserialized: the load succeeds
cache_readable == ~IsNone(cache_data_path) /\ ~IsNone(cache_file) /\ Get(cache_file).readable

\* C29: prepare_data writes the cache file only with a cache path configured
\* and after a cache load that did not succeed; without a cache path it
\* neither reads nor writes a cache file; after a successful load the
\* pipeline does not run and the existing file is left as it is.
C29_CacheWrittenOnMiss ==
    [][PrepareData =>
          /\ call'.cache_write => (~IsNone(cache_data_path) /\ ~cache_readable)
          /\ cache_file' # cache_file => call'.cache_write
          /\ IsNone(cache_data_path) =>
                (~call'.cache_read /\ ~call'.cache_write /\ cache_file' = cache_file)
          /\ (cache_readable /\ ~_data_is_prepared) =>
                /\ call'.cache_hit
                /\ IsNone(call'.featurized)
                /\ ~call'.cache_write
                /\ cache_file' = cache_file]_vars

\* prepare_data restored a new DataModule from the cache file written by an
\* earlier one and wrote nothing
C29_Witness ==
    /\ call.op = "prepare_data"
    /\ call.cache_hit
    /\ ~call.cache_write
    /\ ~IsNone(saved_state)
    /\ cache_readable
    /\ \E task \in TaskSet : Len(Get(single_task_datasets)[task].features) > 0

\* --------------------------------------------------------------------- C30
\* hasattr(self, "dataset"): no statement of the class or of its bases
\* assigns an attribute of that name
has_dataset_attribute == FALSE

\* MultitaskFromSmilesDataModule.is_prepared
is_prepared == IF ~has_dataset_attribute THEN FALSE ELSE TRUE

\* MultitaskFromSmilesDataModule.is_setup (train_ds and test_ds are set to
\* None by the constructor)
is_setup == ~IsNone(train_ds) \/ ~IsNone(test_ds)

\* C30: is_prepared is true exactly when prepare_data has completed, and
\* is_setup is true exactly when setup has built at least one stage dataset.
C30_StateProperties ==
    /\ is_prepared <=> _data_is_prepared
    /\ is_setup <=> built_datasets # {}

====
